---- MODULE Spec2Model ----
(***************************************************************************)
(* Model of init.js, the ng-create-with-config initializer: a strictly     *)
(* sequential script that checks its argument, runs nine external          *)
(* commands through executeCommand, changes the working directory, writes  *)
(* configuration files, patches package.json twice and prints a summary.   *)
(*                                                                         *)
(* The environment (exit status of each command, what the generator        *)
(* leaves on disk, whether a file-system call throws) is nondeterministic. *)
(***************************************************************************)
EXTENDS Naturals, Integers, Sequences, FiniteSets, TLC

VARIABLES
    argv,       \* process.argv[2]; "" when no project name was given
    platform,   \* process.platform
    pc,         \* position of the script; "exited", "crashed" and "done" are terminal
    cwd,        \* working directory of the process
    dirs,       \* absolute paths of the existing directories
    files,      \* existing files: absolute path -> [indent, doc]
    stdout,     \* lines written with console.log
    stderr,     \* lines written with console.error, and the uncaught-exception report
    exitCode,   \* status the process exits with: 0 unless process.exit(1) or a throw sets 1
    trace       \* system calls the script has attempted, in order

vars == <<argv, platform, pc, cwd, dirs, files, stdout, stderr, exitCode, trace>>

-----------------------------------------------------------------------------
(* Bounds of the model *)

MaxScripts == 2          \* members of the "scripts" object the generator writes

ProjectNames == {"demo"}
Platforms == {"linux", "win32"}
ScriptNames == {"lint", "start"}
ScriptValues == {"ng lint", "old"}
Indents == {2, 4}

Origin == "/work"        \* directory the script is started in

-----------------------------------------------------------------------------
(* JSON values.  An object is a sequence of <<key, value>> members in      *)
(* insertion order; a JSON text is the same shape but may repeat a key.    *)

Str(s) == [t |-> "s", s |-> s, m |-> <<>>]
Obj(m) == [t |-> "o", s |-> "", m |-> m]
Undefined == [t |-> "u", s |-> "", m |-> <<>>]

HasKey(m, k) == \E i \in DOMAIN m : m[i][1] = k

Get(m, k) ==
    IF HasKey(m, k)
    THEN m[CHOOSE i \in DOMAIN m : m[i][1] = k /\ \A j \in DOMAIN m : m[j][1] = k => j <= i][2]
    ELSE Undefined

\* obj[k] = v : an existing property keeps its position, a new one goes last
Put(m, k, v) ==
    IF HasKey(m, k)
    THEN [i \in DOMAIN m |-> IF m[i][1] = k THEN <<k, v>> ELSE m[i]]
    ELSE Append(m, <<k, v>>)

RECURSIVE JSONparse(_)
RECURSIVE ParseMembers(_, _)
ParseMembers(ms, acc) ==
    IF ms = <<>> THEN acc
    ELSE ParseMembers(Tail(ms), Put(acc, Head(ms)[1], JSONparse(Head(ms)[2])))

\* JSON.parse: a repeated key keeps its first position and its last value
JSONparse(v) == IF v.t = "o" THEN Obj(ParseMembers(v.m, <<>>)) ELSE v

\* JSON.stringify(value, null, 2): members in insertion order, indent 2
JSONstringify(v) == [indent |-> 2, doc |-> v]

\* { ...x } : own enumerable properties of x; nothing for undefined
Spread(v) == IF v.t = "o" THEN v.m ELSE <<>>

Keys(m) == {m[i][1] : i \in DOMAIN m}

-----------------------------------------------------------------------------
(* Literals of the script *)

usage1 == "Usage: npx ng-create-with-config <project-name>"
usage2 == "   or: node init.js <project-name>"

tailwindConfig == [indent |-> 0, doc |-> Str("tailwindConfig")]
stylesScss     == [indent |-> 0, doc |-> Str("stylesScss")]
prettierConfig ==
    JSONstringify(Obj(<< <<"tabWidth", Str("2")>>,
                         <<"endOfLine", Str("auto")>>,
                         <<"proseWrap", Str("preserve")>>,
                         <<"useTabs", Str("false")>>,
                         <<"singleQuote", Str("true")>>,
                         <<"semi", Str("true")>>,
                         <<"bracketSpacing", Str("true")>>,
                         <<"arrowParens", Str("avoid")>>,
                         <<"trailingComma", Str("es5")>>,
                         <<"bracketSameLine", Str("true")>>,
                         <<"printWidth", Str("80")>>,
                         <<"overrides",
                           Obj(<< <<"0", Obj(<< <<"files", Str("*.html")>>,
                                                <<"options", Obj(<< <<"parser", Str("angular")>> >>)>> >>)>> >>)>> >>))
prettierIgnore == [indent |-> 0, doc |-> Str("prettierIgnore")]
eslintConfig   == [indent |-> 0, doc |-> Str("eslintConfig")]
preCommitHook  == [indent |-> 0, doc |-> Str("npx lint-staged")]

lintStagedConfig ==
    Obj(<< <<"*.ts", Str("eslint --fix,prettier --write")>>,
           <<"*.html", Str("prettier --write")>>,
           <<"*.scss", Str("prettier --write")>> >>)

\* path.join: the separator differs per platform, the file named is the same
pathJoin(a, b) == a \o "/" \o b

huskyDir == ".husky"

-----------------------------------------------------------------------------
(* The script, statement by statement *)

\* Program with the directory change moved behind the first install
ProgramChdirLate ==
    << "check_args", "ng_new", "npm_tailwind", "chdir", "npm_eslint",
       "ng_add_eslint", "npm_prettier", "npm_unused_imports",
       "npm_simple_import_sort", "npm_lint_staged_husky", "husky_init",
       "write_postcssrc", "write_styles", "write_prettierrc",
       "write_prettierignore", "write_eslint_config", "patch_lint_staged",
       "write_pre_commit", "chmod_pre_commit", "patch_scripts", "summary" >>

\* Program with the first file write moved ahead of the last command
ProgramWriteEarly ==
    << "check_args", "ng_new", "chdir", "npm_tailwind", "npm_eslint",
       "ng_add_eslint", "npm_prettier", "npm_unused_imports",
       "npm_simple_import_sort", "npm_lint_staged_husky", "write_postcssrc",
       "husky_init", "write_styles", "write_prettierrc",
       "write_prettierignore", "write_eslint_config", "patch_lint_staged",
       "write_pre_commit", "chmod_pre_commit", "patch_scripts", "summary" >>

Program ==
    << "check_args", "ng_new", "chdir", "npm_tailwind", "npm_eslint",
       "ng_add_eslint", "npm_prettier", "npm_unused_imports",
       "npm_simple_import_sort", "npm_lint_staged_husky", "husky_init",
       "write_postcssrc", "write_styles", "write_prettierrc",
       "write_prettierignore", "write_eslint_config", "patch_lint_staged",
       "write_pre_commit", "chmod_pre_commit", "patch_scripts", "summary" >>

IndexOf(step) == CHOOSE i \in DOMAIN Program : Program[i] = step

\* the statement that follows `step` in the file
After(step) ==
    IF IndexOf(step) < Len(Program) THEN Program[IndexOf(step) + 1] ELSE "done"

Terminated == pc \in {"exited", "crashed", "done"}

Abs(p) == pathJoin(cwd, p)

ParentDir(p) ==
    CASE p = pathJoin("src", "styles.scss") -> Abs("src")
      [] p = pathJoin(huskyDir, "pre-commit") -> Abs(huskyDir)
      [] OTHER -> cwd

NoData == [indent |-> 0, doc |-> Undefined]

\* one attempted system call: what, on what, where, whether it succeeded, and
\* the file content read or written
Sys(op, arg, ok, data) == [op |-> op, arg |-> arg, cwd |-> cwd, ok |-> ok, data |-> data]

\* an exception nobody catches: node reports it on stderr and exits with 1
Uncaught(err) ==
    /\ stderr' = Append(stderr, "Uncaught " \o err)
    /\ exitCode' = 1
    /\ pc' = "crashed"

printMessage(message) == Append(stdout, "==> " \o message)

printWarning(message) == Append(stdout, "Warning: " \o message)

\* executeCommand without the process.exit(1) of its catch block
executeCommandNoExit(command, ok, next) ==
    /\ trace' = Append(trace, Sys("exec", command, ok, NoData))
    /\ pc' = next
    /\ IF ok
       THEN UNCHANGED <<stderr, exitCode>>
       ELSE /\ stderr' = Append(stderr, "Failed to execute: " \o command)
            /\ UNCHANGED exitCode

\* executeCommand without its try/catch
executeCommandUncaught(command, ok, next) ==
    /\ trace' = Append(trace, Sys("exec", command, ok, NoData))
    /\ IF ok
       THEN /\ pc' = next
            /\ UNCHANGED <<stderr, exitCode>>
       ELSE Uncaught("execSync " \o command)

executeCommand(command, ok, next) ==
    /\ trace' = Append(trace, Sys("exec", command, ok, NoData))
    /\ IF ok
       THEN /\ pc' = next
            /\ UNCHANGED <<stderr, exitCode>>
       ELSE /\ stderr' = Append(stderr, "Failed to execute: " \o command)
            /\ exitCode' = 1
            /\ pc' = "exited"

Command(step) ==
    CASE step = "ng_new" -> "ng new " \o argv \o " --routing --style=scss --skip-git"
      [] step = "npm_tailwind" -> "npm install tailwindcss @tailwindcss/postcss postcss"
      [] step = "npm_eslint" -> "npm install -D @angular-eslint/schematics"
      [] step = "ng_add_eslint" -> "ng add @angular-eslint/schematics --skip-confirmation"
      [] step = "npm_prettier" -> "npm install prettier prettier-eslint eslint-config-prettier eslint-plugin-prettier --save-dev"
      [] step = "npm_unused_imports" -> "npm install eslint-plugin-unused-imports --save-dev"
      [] step = "npm_simple_import_sort" -> "npm install eslint-plugin-simple-import-sort --save-dev"
      [] step = "npm_lint_staged_husky" -> "npm install -D lint-staged husky"
      [] step = "husky_init" -> "npx husky init"

CommandSteps ==
    {"ng_new", "npm_tailwind", "npm_eslint", "ng_add_eslint", "npm_prettier",
     "npm_unused_imports", "npm_simple_import_sort", "npm_lint_staged_husky",
     "husky_init"}

\* package.json texts the generator may leave behind
ScriptMembers == {<<n, Str(v)>> : n \in ScriptNames, v \in ScriptValues}

ScriptTexts == UNION {[1..n -> ScriptMembers] : n \in 0..MaxScripts}

Manifests ==
    {[indent |-> i, doc |-> Obj(<< <<"name", Str(argv)>> >> \o s \o l)] :
        i \in Indents,
        s \in {<<>>} \cup {<< <<"scripts", Obj(m)>> >> : m \in ScriptTexts},
        l \in {<<>>, << <<"lint-staged", Str("old")>> >>}}

Init ==
    /\ argv \in ProjectNames \cup {""}
    /\ platform \in Platforms
    /\ pc = "check_args"
    /\ cwd = Origin
    /\ dirs = {Origin}
    /\ files = <<>>
    /\ stdout = <<>>
    /\ stderr = <<>>
    /\ exitCode = 0
    /\ trace = <<>>

\* CheckArgs without the process.exit(1) after the usage message
CheckArgsNoExit ==
    /\ pc = "check_args"
    /\ stderr' = (IF argv = "" THEN stderr \o <<usage1, usage2>> ELSE stderr)
    /\ stdout' = printMessage("Creating Angular project: " \o argv)
    /\ pc' = After("check_args")
    /\ UNCHANGED <<argv, platform, cwd, dirs, files, exitCode, trace>>

CheckArgs ==
    /\ pc = "check_args"
    /\ IF argv = ""
       THEN /\ stderr' = stderr \o <<usage1, usage2>>
            /\ exitCode' = 1
            /\ pc' = "exited"
            /\ UNCHANGED stdout
       ELSE /\ stdout' = printMessage("Creating Angular project: " \o argv)
            /\ pc' = After("check_args")
            /\ UNCHANGED <<stderr, exitCode>>
    /\ UNCHANGED <<argv, platform, cwd, dirs, files, trace>>

\* ng new: on success the generator normally creates the project directory
\* with its package.json and src/styles.scss; a stubbed or dry run does not
NgNew ==
    /\ pc = "ng_new"
    /\ \E ok \in BOOLEAN, created \in BOOLEAN, m \in Manifests :
        /\ executeCommand(Command("ng_new"), ok, After("ng_new"))
        /\ IF ok /\ created
           THEN /\ dirs' = dirs \cup {Abs(argv), pathJoin(Abs(argv), "src")}
                /\ files' = (pathJoin(Abs(argv), "package.json") :> m)
                            @@ (pathJoin(Abs(argv), pathJoin("src", "styles.scss"))
                                  :> [indent |-> 0, doc |-> Str("generated")])
                            @@ files
           ELSE UNCHANGED <<dirs, files>>
    /\ UNCHANGED <<argv, platform, cwd, stdout>>

\* Chdir with the exception of process.chdir swallowed
ChdirIgnored ==
    /\ pc = "chdir"
    /\ LET ok == Abs(argv) \in dirs IN
        /\ trace' = Append(trace, Sys("chdir", argv, ok, NoData))
        /\ cwd' = (IF ok THEN Abs(argv) ELSE cwd)
        /\ stdout' = printMessage("Installing dependencies...")
        /\ pc' = After("chdir")
    /\ UNCHANGED <<argv, platform, dirs, files, stderr, exitCode>>

Chdir ==
    /\ pc = "chdir"
    /\ LET ok == Abs(argv) \in dirs IN
        /\ trace' = Append(trace, Sys("chdir", argv, ok, NoData))
        /\ IF ok
           THEN /\ cwd' = Abs(argv)
                /\ stdout' = printMessage("Installing dependencies...")
                /\ pc' = After("chdir")
                /\ UNCHANGED <<stderr, exitCode>>
           ELSE /\ Uncaught("ENOENT: process.chdir")
                /\ UNCHANGED <<cwd, stdout>>
    /\ UNCHANGED <<argv, platform, dirs, files>>

\* a command whose effect on disk the script never reads back
install(step) ==
    /\ pc = step
    /\ \E ok \in BOOLEAN : executeCommand(Command(step), ok, After(step))
    /\ UNCHANGED <<argv, platform, cwd, dirs, files, stdout>>

NpmTailwind == install("npm_tailwind")

NpmEslint == install("npm_eslint")

NgAddEslint == install("ng_add_eslint")

NpmPrettier == install("npm_prettier")

NpmUnusedImports == install("npm_unused_imports")

NpmSimpleImportSort == install("npm_simple_import_sort")

NpmLintStagedHusky == install("npm_lint_staged_husky")

\* npx husky init: may or may not leave a .husky directory behind
HuskyInit ==
    /\ pc = "husky_init"
    /\ \E ok \in BOOLEAN, made \in BOOLEAN :
        /\ executeCommand(Command("husky_init"), ok, After("husky_init"))
        /\ IF ok /\ made
           THEN /\ dirs' = dirs \cup {Abs(huskyDir)}
                /\ files' = (Abs(pathJoin(huskyDir, "pre-commit"))
                               :> [indent |-> 0, doc |-> Str("npm test")]) @@ files
           ELSE UNCHANGED <<dirs, files>>
    /\ UNCHANGED <<argv, platform, cwd, stdout>>

\* fs.writeFileSync(path, data) preceded by an optional printMessage
writeFile(step, message, path, data) ==
    /\ pc = step
    /\ \E fsOk \in BOOLEAN :
        LET ok == fsOk /\ ParentDir(path) \in dirs IN
        /\ stdout' = (IF message = "" THEN stdout ELSE printMessage(message))
        /\ trace' = Append(trace, Sys("write", path, ok, data))
        /\ IF ok
           THEN /\ files' = (Abs(path) :> data) @@ files
                /\ pc' = After(step)
                /\ UNCHANGED <<stderr, exitCode>>
           ELSE /\ Uncaught("fs.writeFileSync " \o path)
                /\ UNCHANGED files
    /\ UNCHANGED <<argv, platform, cwd, dirs>>

WritePostcssrc ==
    writeFile("write_postcssrc", "Configuring Tailwind CSS...", ".postcssrc.json", tailwindConfig)

WriteStyles == writeFile("write_styles", "", pathJoin("src", "styles.scss"), stylesScss)

WritePrettierrc ==
    writeFile("write_prettierrc", "Configuring Prettier...", ".prettierrc", prettierConfig)

WritePrettierignore == writeFile("write_prettierignore", "", ".prettierignore", prettierIgnore)

WriteEslintConfig ==
    writeFile("write_eslint_config",
              "Configuring ESLint, Prettier, Unused Imports and Simple Sort Imports...",
              "eslint.config.js", eslintConfig)

\* packageJson['lint-staged'] = {...}
withLintStaged(packageJson) ==
    Obj(Put(packageJson.m, "lint-staged", lintStagedConfig))

\* withScripts with the spread written last: { lint, 'lint:fix', format, ...scripts }
withScriptsSpreadLast(updatedPackageJson) ==
    LET added == << <<"lint", Str("ng lint")>>,
                    <<"lint:fix", Str("ng lint --fix")>>,
                    <<"format", Str("prettier --write \"src/**/*.{ts,html,scss}\"")>> >>
        scripts == ParseMembers(Spread(Get(updatedPackageJson.m, "scripts")), added)
    IN  Obj(Put(updatedPackageJson.m, "scripts", Obj(scripts)))

\* withScripts writing back a fresh object that holds the scripts alone
withScriptsOnly(updatedPackageJson) ==
    LET scripts == Put(Put(Put(Spread(Get(updatedPackageJson.m, "scripts")),
                               "lint", Str("ng lint")),
                           "lint:fix", Str("ng lint --fix")),
                       "format", Str("prettier --write \"src/**/*.{ts,html,scss}\""))
    IN  Obj(<< <<"scripts", Obj(scripts)>> >>)

\* updatedPackageJson.scripts = { ...updatedPackageJson.scripts, lint, 'lint:fix', format }
withScripts(updatedPackageJson) ==
    LET scripts == Put(Put(Put(Spread(Get(updatedPackageJson.m, "scripts")),
                               "lint", Str("ng lint")),
                           "lint:fix", Str("ng lint --fix")),
                       "format", Str("prettier --write \"src/**/*.{ts,html,scss}\""))
    IN  Obj(Put(updatedPackageJson.m, "scripts", Obj(scripts)))

\* JSON.parse(fs.readFileSync('package.json')) succeeds on an existing JSON text
Readable(path) == Abs(path) \in DOMAIN files /\ files[Abs(path)].doc.t = "o"

\* read package.json, patch the parsed object, write the whole file back
patchManifest(step, message, kind) ==
    /\ pc = step
    /\ \E readOk \in BOOLEAN, writeOk \in BOOLEAN :
        LET rd  == readOk /\ Readable("package.json")
            wr  == rd /\ writeOk
            obj == JSONparse(files[Abs("package.json")].doc)
            new == IF kind = "lint-staged" THEN withLintStaged(obj) ELSE withScripts(obj)
        IN
        /\ stdout' = printMessage(message)
        /\ trace' = IF rd
                    THEN trace \o <<Sys("read", "package.json", TRUE, files[Abs("package.json")]),
                                    Sys("write", "package.json", wr, JSONstringify(new))>>
                    ELSE Append(trace, Sys("read", "package.json", FALSE, NoData))
        /\ IF wr
           THEN /\ files' = [files EXCEPT ![Abs("package.json")] = JSONstringify(new)]
                /\ pc' = After(step)
                /\ UNCHANGED <<stderr, exitCode>>
           ELSE /\ Uncaught(IF rd THEN "fs.writeFileSync package.json"
                                  ELSE "fs.readFileSync/JSON.parse package.json")
                /\ UNCHANGED files
    /\ UNCHANGED <<argv, platform, cwd, dirs>>

PatchLintStaged ==
    patchManifest("patch_lint_staged", "Configuring lint-staged...", "lint-staged")

\* existsSync / mkdirSync of .husky, then the hook file is written
WritePreCommit ==
    /\ pc = "write_pre_commit"
    /\ \E mkdirOk \in BOOLEAN, writeOk \in BOOLEAN :
        LET exists == Abs(huskyDir) \in dirs
            mk     == exists \/ mkdirOk
            wr     == mk /\ writeOk
            path   == pathJoin(huskyDir, "pre-commit")
        IN
        /\ stdout' = printMessage("Setting up Husky pre-commit hook...")
        /\ trace' = trace
                    \o (IF exists THEN <<>> ELSE <<Sys("mkdir", huskyDir, mkdirOk, NoData)>>)
                    \o (IF mk THEN <<Sys("write", path, wr, preCommitHook)>> ELSE <<>>)
        /\ dirs' = IF mk THEN dirs \cup {Abs(huskyDir)} ELSE dirs
        /\ IF wr
           THEN /\ files' = (Abs(path) :> preCommitHook) @@ files
                /\ pc' = After("write_pre_commit")
                /\ UNCHANGED <<stderr, exitCode>>
           ELSE /\ Uncaught(IF mk THEN "fs.writeFileSync " \o path ELSE "fs.mkdirSync .husky")
                /\ UNCHANGED files
    /\ UNCHANGED <<argv, platform, cwd>>

\* ChmodPreCommit without its try/catch
ChmodPreCommitUnguarded ==
    /\ pc = "chmod_pre_commit"
    /\ IF platform # "win32"
       THEN \E ok \in BOOLEAN :
             /\ trace' = Append(trace, Sys("chmod", pathJoin(huskyDir, "pre-commit"), ok, NoData))
             /\ IF ok
                THEN /\ pc' = After("chmod_pre_commit")
                     /\ UNCHANGED <<stderr, exitCode>>
                ELSE Uncaught("fs.chmodSync")
       ELSE /\ pc' = After("chmod_pre_commit")
            /\ UNCHANGED <<trace, stderr, exitCode>>
    /\ UNCHANGED <<argv, platform, cwd, dirs, files, stdout>>

\* chmodSync inside try/catch, skipped on win32
ChmodPreCommit ==
    /\ pc = "chmod_pre_commit"
    /\ IF platform # "win32"
       THEN \E ok \in BOOLEAN :
             /\ trace' = Append(trace, Sys("chmod", pathJoin(huskyDir, "pre-commit"), ok, NoData))
             /\ stdout' = IF ok THEN stdout
                          ELSE printWarning("Could not make pre-commit hook executable")
       ELSE UNCHANGED <<trace, stdout>>
    /\ pc' = After("chmod_pre_commit")
    /\ UNCHANGED <<argv, platform, cwd, dirs, files, stderr, exitCode>>

PatchScripts == patchManifest("patch_scripts", "Adding npm scripts...", "scripts")

\* the commands the closing printout lists under "Available commands"
AdvertisedScripts == {"lint", "lint:fix", "format", "format:check"}

\* the closing printout (the decorative symbols of the lines are left out)
Summary ==
    /\ pc = "summary"
    /\ stdout' = printMessage("Project setup complete!")
                 \o <<"",
                      "Your Angular project is ready with:",
                      "  Angular with routing and SCSS",
                      "  Tailwind CSS",
                      "  ESLint with Angular rules",
                      "  Prettier",
                      "  lint-staged with Husky pre-commit hooks",
                      "",
                      "Available commands:",
                      "  npm start          - Start development server",
                      "  npm run lint       - Run ESLint",
                      "  npm run lint:fix   - Fix ESLint issues",
                      "  npm run format     - Format code with Prettier",
                      "  npm run format:check - Check code formatting",
                      "",
                      "Get started:",
                      "  cd " \o argv,
                      "  npm start">>
    /\ pc' = "done"
    /\ UNCHANGED <<argv, platform, cwd, dirs, files, stderr, exitCode, trace>>

Next ==
    \/ CheckArgs
    \/ NgNew
    \/ Chdir
    \/ NpmTailwind
    \/ NpmEslint
    \/ NgAddEslint
    \/ NpmPrettier
    \/ NpmUnusedImports
    \/ NpmSimpleImportSort
    \/ NpmLintStagedHusky
    \/ HuskyInit
    \/ WritePostcssrc
    \/ WriteStyles
    \/ WritePrettierrc
    \/ WritePrettierignore
    \/ WriteEslintConfig
    \/ PatchLintStaged
    \/ WritePreCommit
    \/ ChmodPreCommit
    \/ PatchScripts
    \/ Summary

Spec == Init /\ [][Next]_vars

-----------------------------------------------------------------------------
(* Vocabulary of the properties *)

Last(q) == q[Len(q)]

ProjectDir == pathJoin(Origin, argv)

Pkg == pathJoin(ProjectDir, "package.json")

FsOps == {"read", "write", "mkdir", "chmod"}

AllOk == \A i \in DOMAIN trace : trace[i].ok

SummaryPrinted == \E i \in DOMAIN stdout : stdout[i] = "==> Project setup complete!"

Diagnostics == {"Failed to execute: " \o Command(s) : s \in CommandSteps}

\* the three ways a run can end
Success == pc = "done" /\ exitCode = 0 /\ SummaryPrinted /\ stderr = <<>>

ControlledExit ==
    /\ pc = "exited" /\ exitCode = 1 /\ trace # <<>>
    /\ Last(trace).op = "exec" /\ ~Last(trace).ok
    /\ stderr = <<"Failed to execute: " \o Last(trace).arg>>
    /\ ~SummaryPrinted

CrashIn(ops) ==
    /\ pc = "crashed" /\ exitCode = 1 /\ trace # <<>>
    /\ Last(trace).op \in ops /\ ~Last(trace).ok
    /\ Len(stderr) = 1 /\ stderr[1] \notin Diagnostics
    /\ ~SummaryPrinted

ExactlyOne(a, b, c) == (a \/ b \/ c) /\ ~(a /\ b) /\ ~(a /\ c) /\ ~(b /\ c)

ManifestNow == JSONparse(files[Pkg].doc).m

ScriptsOf(m) == Spread(Get(m, "scripts"))

AddedScripts == {"lint", "lint:fix", "format"}

-----------------------------------------------------------------------------
(* C1: a failed external command is the last thing the run does: it is the *)
(* last system call attempted, the process has exited with status 1, the   *)
(* only diagnostic names that command, the working directory is the one    *)
(* the command ran in and the success summary is never printed.            *)
FailFast ==
    \A i \in DOMAIN trace :
        (trace[i].op = "exec" /\ ~trace[i].ok) =>
            /\ i = Len(trace)
            /\ pc = "exited"
            /\ exitCode = 1
            /\ stderr = <<"Failed to execute: " \o trace[i].arg>>
            /\ trace[i].arg \in {Command(s) : s \in CommandSteps}
            /\ cwd = trace[i].cwd
            /\ ~SummaryPrinted

\* a command after the directory change has failed
FailFastWitness ==
    /\ pc = "exited" /\ Len(trace) > 3
    /\ Last(trace).op = "exec" /\ ~Last(trace).ok /\ cwd = ProjectDir

(* C2: without a project name the run ends at once with status 1 and the   *)
(* usage message on stderr; nothing was executed, the working directory    *)
(* and the file system are untouched.                                      *)
UsageError ==
    (argv = "" /\ pc # "check_args") =>
        /\ pc = "exited"
        /\ exitCode = 1
        /\ stderr = <<usage1, usage2>>
        /\ stdout = <<>>
        /\ trace = <<>>
        /\ cwd = Origin
        /\ dirs = {Origin}
        /\ files = <<>>

UsageErrorWitness == argv = "" /\ pc = "exited" /\ Len(stderr) = 2

(* C3: the directory change is attempted only after ng new has succeeded,  *)
(* and every other command runs after a successful directory change, with  *)
(* the project directory as working directory.                             *)
Sequencing ==
    /\ \A i \in DOMAIN trace :
         trace[i].op = "chdir" =>
            \E j \in 1..(i - 1) :
                trace[j].op = "exec" /\ trace[j].arg = Command("ng_new") /\ trace[j].ok
    /\ \A i \in DOMAIN trace :
         (trace[i].op = "exec" /\ trace[i].arg # Command("ng_new")) =>
            /\ trace[i].cwd = ProjectDir
            /\ \E j \in 1..(i - 1) : trace[j].op = "chdir" /\ trace[j].ok
    /\ cwd \in {Origin, ProjectDir}
    /\ cwd = ProjectDir => \E j \in DOMAIN trace : trace[j].op = "chdir" /\ trace[j].ok

\* an install has run inside the project directory
SequencingWitness ==
    \E i \in DOMAIN trace :
        trace[i].op = "exec" /\ trace[i].arg = Command("npm_prettier") /\ trace[i].cwd = ProjectDir

(* C4: a run with a project name in which no command and no file-system    *)
(* call failed is never stuck, and once it has ended it has printed the    *)
(* summary and exits with 0; the project directory then holds the five     *)
(* configuration files, and package.json holds the lint-staged mapping     *)
(* together with the scripts the scripts step adds.                        *)
EndToEnd ==
    (argv # "" /\ AllOk) =>
        /\ ~Terminated => ENABLED Next
        /\ Terminated =>
            /\ Success
            /\ cwd = ProjectDir
            /\ \A p \in {".postcssrc.json", ".prettierrc", ".prettierignore",
                         "eslint.config.js", pathJoin(huskyDir, "pre-commit")} :
                   pathJoin(ProjectDir, p) \in DOMAIN files
            /\ files[pathJoin(ProjectDir, ".postcssrc.json")] = tailwindConfig
            /\ files[pathJoin(ProjectDir, ".prettierrc")] = prettierConfig
            /\ files[pathJoin(ProjectDir, ".prettierignore")] = prettierIgnore
            /\ files[pathJoin(ProjectDir, "eslint.config.js")] = eslintConfig
            /\ files[pathJoin(ProjectDir, pathJoin(huskyDir, "pre-commit"))] = preCommitHook
            /\ Pkg \in DOMAIN files
            /\ Get(ManifestNow, "lint-staged") = lintStagedConfig
            /\ AddedScripts \subseteq Keys(ScriptsOf(ManifestNow))
            /\ Get(ScriptsOf(ManifestNow), "lint") = Str("ng lint")
            /\ Get(ScriptsOf(ManifestNow), "lint:fix") = Str("ng lint --fix")

\* a complete run whose generated manifest already had scripts and a
\* lint-staged entry of its own
EndToEndWitness ==
    /\ pc = "done" /\ AllOk
    /\ \E i \in DOMAIN trace :
         /\ trace[i].op = "read"
         /\ HasKey(trace[i].data.doc.m, "scripts")
         /\ Get(trace[i].data.doc.m, "lint-staged") = Str("old")

(* C5 as stated: once the scripts step has run, package.json defines every *)
(* script the closing printout advertises (lint, lint:fix, format and      *)
(* format:check).                                                          *)
FourScriptsAdded ==
    pc \in {"summary", "done"} => AdvertisedScripts \subseteq Keys(ScriptsOf(ManifestNow))

(* C6: the scripts step, seen as the last read and the file now on disk:   *)
(* the added names carry the new values whatever they held before, every   *)
(* other script and every other field of the manifest is as it was read,   *)
(* no name appears from nowhere, and running the step again on the file    *)
(* leaves it as it is.                                                     *)
LastRead ==
    trace[CHOOSE i \in DOMAIN trace :
            trace[i].op = "read" /\ \A j \in DOMAIN trace : trace[j].op = "read" => j <= i]

ManifestMerge ==
    pc \in {"summary", "done"} =>
        LET before == JSONparse(LastRead.data.doc).m
            after  == ManifestNow
        IN  /\ Get(ScriptsOf(after), "lint") = Str("ng lint")
            /\ Get(ScriptsOf(after), "lint:fix") = Str("ng lint --fix")
            /\ Get(ScriptsOf(after), "format") = Str("prettier --write \"src/**/*.{ts,html,scss}\"")
            /\ Keys(ScriptsOf(after)) = Keys(ScriptsOf(before)) \cup AddedScripts
            /\ \A k \in Keys(ScriptsOf(before)) \ AddedScripts :
                   Get(ScriptsOf(after), k) = Get(ScriptsOf(before), k)
            /\ Keys(after) = Keys(before) \cup {"scripts"}
            /\ \A k \in Keys(before) \ {"scripts"} : Get(after, k) = Get(before, k)
            /\ JSONstringify(withScripts(JSONparse(files[Pkg].doc))) = files[Pkg]

\* the step has overwritten a lint script of another value next to a start script
ManifestMergeWitness ==
    /\ pc = "summary"
    /\ Get(ScriptsOf(JSONparse(LastRead.data.doc).m), "lint") = Str("old")
    /\ HasKey(ScriptsOf(JSONparse(LastRead.data.doc).m), "start")
    /\ Get(ScriptsOf(ManifestNow), "lint") = Str("ng lint")

(* C7: chmod is never attempted on win32 and always attempted elsewhere;   *)
(* a failed chmod leaves a warning on stdout and nothing on stderr, the    *)
(* run goes on to read package.json for the scripts step, and it ends in   *)
(* the summary unless that later step itself fails.                        *)
BestEffortChmod ==
    /\ platform = "win32" => \A i \in DOMAIN trace : trace[i].op # "chmod"
    /\ (platform # "win32" /\ pc \in {"patch_scripts", "summary", "done"}) =>
          \E i \in DOMAIN trace : trace[i].op = "chmod"
    /\ \A i \in DOMAIN trace :
         (trace[i].op = "chmod" /\ ~trace[i].ok) =>
            /\ pc \in {"patch_scripts", "summary", "done", "crashed"}
            /\ \E k \in DOMAIN stdout :
                  stdout[k] = "Warning: Could not make pre-commit hook executable"
            /\ pc # "patch_scripts" =>
                  \E j \in (i + 1)..Len(trace) : trace[j].op = "read"
            /\ pc = "crashed" =>
                  /\ i < Len(trace)
                  /\ Last(trace).op \in {"read", "write"} /\ ~Last(trace).ok
            /\ pc # "crashed" => stderr = <<>> /\ exitCode = 0
            /\ pc = "patch_scripts" => ENABLED Next
            /\ pc = "done" => Success

\* a run that ended in the summary although chmod had failed
BestEffortChmodWitness ==
    /\ pc = "done" /\ SummaryPrinted
    /\ \E i \in DOMAIN trace : trace[i].op = "chmod" /\ ~trace[i].ok

(* C8 as stated: a run with a project name ends in exactly one of: the     *)
(* summary, the controlled exit of a failed command, or a crash on a       *)
(* failed file-system call of the configuration steps.                     *)
TrichotomyAsStated ==
    (argv # "" /\ Terminated) =>
        ExactlyOne(Success, ControlledExit, CrashIn({"read", "write", "mkdir"}))

(* C8 amended: the crash may also come from the directory change of step   *)
(* 2; a run that has not ended can always take its next step.              *)
Trichotomy ==
    argv # "" =>
        /\ ~Terminated => ENABLED Next
        /\ Terminated =>
            ExactlyOne(Success, ControlledExit, CrashIn({"chdir", "read", "write", "mkdir"}))

\* the crash the stated claim leaves out
TrichotomyWitness == CrashIn({"chdir"})

(* C9 as stated: after a failed directory change the run goes on and a     *)
(* later command is attempted.                                             *)
ChdirFailureContinues ==
    \A i \in DOMAIN trace :
        (trace[i].op = "chdir" /\ ~trace[i].ok) =>
            /\ pc # "crashed"
            /\ Terminated => \E j \in (i + 1)..Len(trace) : trace[j].op = "exec"

(* C9 amended: a failed directory change is caught nowhere: it is the last *)
(* thing the run attempts, and the process crashes there with status 1,    *)
(* without the diagnostic of a failed command and in the old directory.    *)
ChdirFailureCrashes ==
    \A i \in DOMAIN trace :
        (trace[i].op = "chdir" /\ ~trace[i].ok) =>
            /\ i = Len(trace)
            /\ CrashIn({"chdir"})
            /\ cwd = Origin
            /\ ProjectDir \notin dirs

\* ng new succeeded, left no directory behind, and the directory change failed
ChdirFailureWitness ==
    /\ Len(trace) = 2
    /\ trace[1].op = "exec" /\ trace[1].ok
    /\ trace[2].op = "chdir" /\ ~trace[2].ok

(* C10: a file-system call of the script is preceded by the success of     *)
(* every command and of the directory change; a run that ended in the      *)
(* controlled exit has attempted no file-system call, no file holds one of *)
(* the script's contents and package.json, if there, is as generated.      *)
WritesAfterCommands ==
    /\ \A i \in DOMAIN trace :
         trace[i].op \in FsOps =>
            /\ \A s \in CommandSteps :
                  \E j \in 1..(i - 1) :
                      trace[j].op = "exec" /\ trace[j].arg = Command(s) /\ trace[j].ok
            /\ \E j \in 1..(i - 1) : trace[j].op = "chdir" /\ trace[j].ok
    /\ (pc = "exited" /\ argv # "") =>
          /\ \A i \in DOMAIN trace : trace[i].op \notin FsOps
          /\ \A f \in DOMAIN files :
                files[f] \notin {tailwindConfig, stylesScss, prettierConfig,
                                 prettierIgnore, eslintConfig, preCommitHook}
          /\ Pkg \in DOMAIN files => files[Pkg] \in Manifests

\* the first file write has happened
WritesAfterCommandsWitness ==
    /\ pathJoin(ProjectDir, ".postcssrc.json") \in DOMAIN files
    /\ \E i \in DOMAIN trace : trace[i].op = "write" /\ trace[i].ok

=============================================================================
